---- MODULE Spec2Model ----
(***************************************************************************)
(* A model of the two streaming programs of video_streamer:                *)
(*   play_video_vlc.py          the chunked sender (one encoder per chunk) *)
(*   play_video_vlc_no_chunk.py the single-session sender                  *)
(* The main thread of each program is a pc-driven state machine; the       *)
(* encoder processes, the stderr drain threads, the monotonic clock and    *)
(* the user's Ctrl-C are the environment.                                  *)
(*                                                                         *)
(* fps and chunk_duration are floats in the code.  They are modelled as    *)
(* exact non-negative rationals <<numerator, denominator>>; float rounding *)
(* error is outside the model.                                             *)
(***************************************************************************)
EXTENDS Integers, Naturals, Sequences, FiniteSets, TLC

\* ------------------------------------------------------------------ bounds
\* fps ranges over k / FpsDen, k \in 1..MaxFpsNum
MaxFpsNum == 4
FpsDen == 2
\* chunk_duration ranges over j / CdDen, j \in 1..MaxCdNum
MaxCdNum == 3
CdDen == 2
\* the source yields 0..MaxFrames frames
MaxFrames == 4
\* the monotonic clock runs from 0 to MaxTime ticks
MaxTime == 6

\* --------------------------------------------------------------- rationals
RNum(r) == r[1]

RDen(r) == r[2]

REq(a, b) == RNum(a) * RDen(b) = RNum(b) * RDen(a)

RAdd(a, b) == <<RNum(a) * RDen(b) + RNum(b) * RDen(a), RDen(a) * RDen(b)>>

RMul(a, b) == <<RNum(a) * RNum(b), RDen(a) * RDen(b)>>

\* the integer i divided by the rational r (r > 0)
IntDivR(i, r) == <<i * RDen(r), RNum(r)>>

\* the integer i times the rational r
IntMulR(i, r) == <<i * RNum(r), RDen(r)>>

Max(a, b) == IF a >= b THEN a ELSE b

\* Python's round() of a non-negative value: to the nearest integer, a tie
\* going to the even neighbour
PyRound(r) ==
    LET q == RNum(r) \div RDen(r)
        m == RNum(r) % RDen(r)
    IN  IF 2 * m < RDen(r) THEN q
        ELSE IF 2 * m > RDen(r) THEN q + 1
        ELSE IF q % 2 = 0 THEN q ELSE q + 1

\* the least integer >= r (the chunk size the specification text names)
Ceil(r) == (RNum(r) + RDen(r) - 1) \div RDen(r)

\* ------------------------------------------------------- pure code helpers
\* process_frame: the frame hook returns its argument
process_frame(frame) == frame

\* main: chunk_frame_count = max(1, int(round(fps * args.chunk_duration)))
ChunkFrameCountCeil(f, cd) == Max(1, Ceil(RMul(f, cd)))

ChunkFrameCount(f, cd) == Max(1, PyRound(RMul(f, cd)))

\* main: estimated_chunks
EstimatedChunks(total_frames, cfc) ==
    IF total_frames > 0 THEN (total_frames + cfc - 1) \div cfc ELSE 0

\* main: chunk_start_sec = chunk_idx * args.chunk_duration
ChunkStartSec(idx, cd, f) == IntMulR(idx, cd)

\* send_chunk: chunk_duration_sec = len(frames) / fps
ChunkDurationSec(nframes, f) == IntDivR(nframes, f)

\* build_chunk_ffmpeg_cmd: the options of the command that carry the chunk's
\* timing.  str() of a float is its shortest round-tripping form, so the
\* value the encoder parses is the value passed in.
build_chunk_ffmpeg_cmd(start_sec, duration_sec) ==
    [ss |-> start_sec, t |-> duration_sec, output_ts_offset |-> start_sec]

\* ------------------------------------------------------------------- state
VARIABLES
    mode,              \* "chunk": play_video_vlc.py, "single": ..._no_chunk.py
    fps,               \* main: fps
    chunk_duration,    \* args.chunk_duration
    total_frames,      \* the number of frames capture.read() will yield
    pc,                \* the main thread's position
    capture_pos,       \* frames read from the capture so far
    capture_released,  \* capture.release() has run
    chunk_idx,         \* main: chunk_idx
    chunk_start_sec,   \* main: chunk_start_sec
    frames,            \* main: frames (chunk) / the frame in hand (single)
    eof,               \* main: eof
    total_frame_count, \* main: total_frame_count (chunk) / frame_count (single)
    frame_i,           \* send_chunk: frames already taken by the for loop
    pipe_broken,       \* send_chunk: pipe_broken; single: a write raised
    chunks,            \* the chunks main has formed: [start, size]
    sessions,          \* the encoder processes launched, in launch order
    written,           \* the frames accepted by stdin.write, in order
    now,               \* time.monotonic() during a pacing run, in ticks
    next_frame_time,   \* next_frame_time
    returns,           \* the results send_chunk has returned, in order
    interrupts,        \* where each KeyboardInterrupt found the main thread
    exit_status        \* the process's exit status (-1: still running)

vars == <<mode, fps, chunk_duration, total_frames, pc, capture_pos,
          capture_released, chunk_idx, chunk_start_sec, frames, eof,
          total_frame_count, frame_i, pipe_broken, chunks, sessions, written,
          now, next_frame_time, returns,
          interrupts, exit_status>>

\* what main and send_chunk own besides pc
progVars == <<capture_pos, capture_released, chunk_idx, chunk_start_sec,
              frames, eof, total_frame_count, frame_i, pipe_broken, chunks,
              written, returns, exit_status>>

paceVars == <<next_frame_time>>

inputVars == <<mode, fps, chunk_duration, total_frames>>

FpsValues == {<<k, FpsDen>> : k \in 1..MaxFpsNum}

ChunkDurations == {<<j, CdDen>> : j \in 1..MaxCdNum}

\* one frame period, 1.0 / fps, is TicksPerFrame ticks of the model's clock
TicksPerFrame == 2

\* The reference point of time.monotonic() is undefined and the code uses
\* only differences of its readings: the model's clock reads t0 when a pacer
\* is initialised (next_frame_time = time.monotonic()) and is followed until
\* that pacing run ends.
t0 == 0

\* the positions at which a pacing run is under way
PacingPcs == {"pace", "sleep", "write", "nc_read", "nc_pace", "nc_sleep",
              "nc_write"}

\* the pacing run is over: its clock and its schedule are no longer followed
EndPacing(leaving) ==
    IF leaving THEN now' = t0 /\ next_frame_time' = t0
    ELSE UNCHANGED <<now, next_frame_time>>

\* send_chunk / main: frame_duration = 1.0 / fps
FrameDuration == TicksPerFrame

\* the status of a process ended by an exception nobody caught: Python ends
\* a run whose KeyboardInterrupt escapes with SIGINT's status
UncaughtInterrupt == 128 + 2

\* the state once the capture has been opened and the parameters computed
Init ==
    /\ mode \in {"chunk", "single"}
    /\ fps \in FpsValues
    /\ chunk_duration \in ChunkDurations
    \* the single-session program has no --chunk-duration, and fps only sets
    \* its frame period: one value of each stands for all
    /\ mode = "single" => fps = <<FpsDen, FpsDen>> /\ chunk_duration = <<CdDen, CdDen>>
    /\ total_frames \in 0..MaxFrames
    /\ pc = "delay"
    /\ capture_pos = 0
    /\ capture_released = FALSE
    /\ chunk_idx = 0
    /\ chunk_start_sec = <<0, 1>>
    /\ frames = <<>>
    /\ eof = FALSE
    /\ total_frame_count = 0
    /\ frame_i = 0
    /\ pipe_broken = FALSE
    /\ chunks = <<>>
    /\ sessions = <<>>
    /\ written = <<>>
    /\ now = 0
    /\ next_frame_time = 0
    /\ returns = <<>>
    /\ interrupts = <<>>
    /\ exit_status = -1

\* the session send_chunk / main is feeding
Cur == Len(sessions)

\* subprocess.Popen(ffmpeg_cmd, stdin=PIPE, stderr=PIPE) succeeded
NewSession(cmd, nframes) ==
    [cmd |-> cmd, size |-> nframes, enc |-> "running", status |-> -1,
     closes |-> 0, awaited |-> FALSE, drain |-> "none", nwritten |-> 0,
     returned |-> FALSE]

\* capture.read(): (ret, frame); the k-th frame of the source is named k
CaptureRead(pos, n) ==
    IF pos < n THEN [ret |-> TRUE, frame |-> pos + 1]
    ELSE [ret |-> FALSE, frame |-> 0]

\* the pacer: next_frame_time += frame_duration
NextFrameTimeRelative(nft, clock) == clock + FrameDuration

NextFrameTime(nft, clock) == nft + FrameDuration

\* send_chunk: return not pipe_broken
SendChunkResult(broken, status) == ~broken

\* ============================================ play_video_vlc.py (chunked)
\* main, lines 246-257: the start delay and the set-up before the try block
StartDelay ==
    /\ mode = "chunk" /\ pc = "delay"
    /\ pc' = "loop"
    /\ UNCHANGED <<inputVars, progVars, paceVars, sessions, now, interrupts>>

\* main: frames = [] at the top of every chunk
FreshFramesKept(old) == old

FreshFrames(old) == <<>>

\* main: while not eof: chunk_start_sec = chunk_idx * chunk_duration; frames = []
LoopTop ==
    /\ mode = "chunk" /\ pc = "loop"
    /\ IF eof
       THEN pc' = "finally" /\ UNCHANGED <<chunk_start_sec, frames>>
       ELSE /\ chunk_start_sec' = ChunkStartSec(chunk_idx, chunk_duration, fps)
            /\ frames' = FreshFrames(frames)
            /\ pc' = "read"
    /\ UNCHANGED <<inputVars, capture_pos, capture_released, chunk_idx, eof,
                   total_frame_count, frame_i, pipe_broken, chunks, written,
                   returns, exit_status, paceVars, sessions, now, interrupts>>

\* main: for _ in range(chunk_frame_count) ends after chunk_frame_count reads
ChunkFullLate(nread, cfc) == nread > cfc

ChunkFull(nread, cfc) == nread >= cfc

\* main: one turn of  for _ in range(chunk_frame_count): capture.read() ...
ReadFrame ==
    /\ mode = "chunk" /\ pc = "read"
    /\ LET r == CaptureRead(capture_pos, total_frames)
           cfc == ChunkFrameCount(fps, chunk_duration)
       IN  IF r.ret
           THEN /\ frames' = Append(frames, process_frame(r.frame))
                /\ capture_pos' = capture_pos + 1
                /\ pc' = IF ChunkFull(Len(frames) + 1, cfc) THEN "formed"
                                                             ELSE "read"
                /\ eof' = eof
           ELSE /\ eof' = TRUE
                /\ pc' = "formed"
                /\ UNCHANGED <<frames, capture_pos>>
    /\ UNCHANGED <<inputVars, capture_released, chunk_idx, chunk_start_sec,
                   total_frame_count, frame_i, pipe_broken, chunks, written,
                   returns, exit_status, paceVars, sessions, now, interrupts>>

\* main: if not frames: break
EmptyChunkSent(fs) == FALSE

EmptyChunkBreaks(fs) == fs = <<>>

\* main: if not frames: break; chunk_idx += 1; the chunk is announced
FormChunk ==
    /\ mode = "chunk" /\ pc = "formed"
    /\ IF EmptyChunkBreaks(frames)
       THEN pc' = "finally" /\ UNCHANGED <<chunk_idx, chunks>>
       ELSE /\ chunk_idx' = chunk_idx + 1
            /\ chunks' = Append(chunks, [start |-> chunk_start_sec,
                                         size |-> Len(frames)])
            /\ pc' = "launch"
    /\ UNCHANGED <<inputVars, capture_pos, capture_released, chunk_start_sec,
                   frames, eof, total_frame_count, frame_i, pipe_broken,
                   written, returns, exit_status, paceVars, sessions, now,
                   interrupts>>

\* send_chunk, lines 157-172: build the command and start the encoder
Launch ==
    /\ mode = "chunk" /\ pc = "launch"
    /\ \E found \in BOOLEAN :
         IF found
         THEN /\ sessions' = Append(sessions,
                     NewSession(build_chunk_ffmpeg_cmd(chunk_start_sec,
                                    ChunkDurationSec(Len(frames), fps)),
                                Len(frames)))
              /\ pc' = "drain"
              /\ UNCHANGED <<returns>>
         ELSE \* except FileNotFoundError: return False
              /\ returns' = Append(returns, FALSE)
              /\ pc' = "ret"
              /\ UNCHANGED <<sessions>>
    /\ UNCHANGED <<inputVars, capture_pos, capture_released, chunk_idx,
                   chunk_start_sec, frames, eof, total_frame_count, frame_i,
                   pipe_broken, chunks, written, exit_status, paceVars, now,
                   interrupts>>

\* send_chunk, lines 174-179: stderr_thread.start()
StartDrain ==
    /\ mode = "chunk" /\ pc = "drain"
    /\ sessions' = [sessions EXCEPT ![Cur].drain = "running"]
    /\ pc' = "pacer"
    /\ UNCHANGED <<inputVars, progVars, paceVars, now, interrupts>>

\* where the for loop of send_chunk goes with i of its n frames taken
AfterWrite(i, n) == IF i < n THEN "pace" ELSE "close"

\* where it goes after BrokenPipeError: break
AfterBroken(i, n) == "close"

\* send_chunk, lines 182-186: next_frame_time = time.monotonic(); the for
\* loop is entered
PacerInit ==
    /\ mode = "chunk" /\ pc = "pacer"
    /\ now' = t0
    /\ next_frame_time' = t0
    /\ frame_i' = 0
    /\ pipe_broken' = FALSE
    /\ pc' = AfterWrite(0, Len(frames))
    /\ UNCHANGED <<inputVars, capture_pos, capture_released, chunk_idx,
                   chunk_start_sec, frames, eof, total_frame_count, chunks,
                   written, returns, exit_status, sessions, interrupts>>

\* send_chunk, lines 186-191: read the clock; sleep when ahead of schedule
Pace ==
    /\ mode = "chunk" /\ pc = "pace"
    /\ IF next_frame_time - now > 0
       THEN pc' = "sleep" /\ UNCHANGED next_frame_time
       ELSE /\ next_frame_time' = NextFrameTime(next_frame_time, now)
            /\ pc' = "write"
    /\ UNCHANGED <<inputVars, progVars, sessions, now, interrupts>>

\* send_chunk: time.sleep(sleep_time) returns, no earlier than asked
Wake ==
    /\ mode = "chunk" /\ pc = "sleep"
    /\ now >= next_frame_time
    /\ next_frame_time' = NextFrameTime(next_frame_time, now)
    /\ pc' = "write"
    /\ UNCHANGED <<inputVars, progVars, sessions, now, interrupts>>

\* send_chunk, lines 193-198: ffmpeg_proc.stdin.write(frame.tobytes())
Write ==
    /\ mode = "chunk" /\ pc = "write"
    /\ frame_i < Len(frames)
    /\ frame_i' = frame_i + 1
    /\ IF sessions[Cur].enc = "running"
       THEN /\ written' = Append(written, frames[frame_i + 1])
            /\ sessions' = [sessions EXCEPT ![Cur].nwritten = @ + 1]
            /\ pc' = AfterWrite(frame_i + 1, Len(frames))
            /\ UNCHANGED pipe_broken
       ELSE \* except BrokenPipeError: pipe_broken = True; break
            /\ pipe_broken' = TRUE
            /\ pc' = AfterBroken(frame_i + 1, Len(frames))
            /\ UNCHANGED <<written, sessions>>
    /\ EndPacing(pc' \notin PacingPcs)
    /\ UNCHANGED <<inputVars, capture_pos, capture_released, chunk_idx,
                   chunk_start_sec, frames, eof, total_frame_count, chunks,
                   returns, exit_status, interrupts>>

\* the teardown closes stdin once
StdinLeftOpen(c) == c

StdinCloses(c) == c + 1

\* send_chunk, lines 201-205: ffmpeg_proc.stdin.close(), BrokenPipeError passed
CloseStdin ==
    /\ mode = "chunk" /\ pc = "close"
    /\ sessions' = [sessions EXCEPT ![Cur].closes = StdinCloses(@)]
    /\ pc' = "wait"
    /\ UNCHANGED <<inputVars, progVars, paceVars, now, interrupts>>

\* ffmpeg_proc.wait() returns once the encoder has exited
WaitReturnsAtOnce(enc) == TRUE

WaitReturns(enc) == enc = "exited"

\* send_chunk, line 206: ffmpeg_proc.wait()
Wait ==
    /\ mode = "chunk" /\ pc = "wait"
    /\ WaitReturns(sessions[Cur].enc)
    /\ sessions' = [sessions EXCEPT ![Cur].awaited = TRUE]
    /\ pc' = "return"
    /\ UNCHANGED <<inputVars, progVars, paceVars, now, interrupts>>

\* send_chunk, line 208: return not pipe_broken
Return ==
    /\ mode = "chunk" /\ pc = "return"
    /\ returns' = Append(returns,
                         SendChunkResult(pipe_broken, sessions[Cur].status))
    /\ sessions' = [sessions EXCEPT ![Cur].returned = TRUE]
    /\ pc' = "ret"
    /\ UNCHANGED <<inputVars, capture_pos, capture_released, chunk_idx,
                   chunk_start_sec, frames, eof, total_frame_count, frame_i,
                   pipe_broken, chunks, written, exit_status, paceVars, now,
                   interrupts>>

\* main, after a failed chunk: break
AfterFailedChunkContinue == "loop"

AfterFailedChunk == "finally"

\* main, lines 287-293: total_frame_count += len(frames); if ok ... else break
AfterSendChunk ==
    /\ mode = "chunk" /\ pc = "ret"
    /\ total_frame_count' = total_frame_count + Len(frames)
    /\ pc' = IF returns[Len(returns)] THEN "loop" ELSE AfterFailedChunk
    /\ UNCHANGED <<inputVars, capture_pos, capture_released, chunk_idx,
                   chunk_start_sec, frames, eof, frame_i, pipe_broken, chunks,
                   written, returns, exit_status, paceVars, sessions, now,
                   interrupts>>

\* main: the exit status after the finally block
MainReturn == 0

\* main, lines 297-305: finally: the summary, capture.release(); return 0
Finally ==
    /\ mode = "chunk" /\ pc = "finally"
    /\ capture_released' = TRUE
    /\ exit_status' = MainReturn
    /\ pc' = "exit"
    /\ UNCHANGED <<inputVars, capture_pos, chunk_idx, chunk_start_sec, frames,
                   eof, total_frame_count, frame_i, pipe_broken, chunks,
                   written, returns, paceVars, sessions, now, interrupts>>

\* the positions of main inside its try block (send_chunk's included)
TryPcs == {"loop", "read", "formed", "launch", "drain", "pacer", "pace",
           "sleep", "write", "close", "wait", "return", "ret"}

\* main, lines 295-296: except KeyboardInterrupt; anywhere else it escapes
KeyboardInterrupt ==
    /\ mode = "chunk" /\ pc # "exit"
    /\ interrupts' = Append(interrupts, pc)
    /\ IF pc \in TryPcs
       THEN pc' = "finally" /\ UNCHANGED exit_status
       ELSE pc' = "exit" /\ exit_status' = UncaughtInterrupt
    /\ EndPacing(pc \in PacingPcs)
    /\ UNCHANGED <<inputVars, capture_pos, capture_released, chunk_idx,
                   chunk_start_sec, frames, eof, total_frame_count, frame_i,
                   pipe_broken, chunks, written, returns, sessions>>

\* ============================ play_video_vlc_no_chunk.py (single session)
\* main, lines 104-138: ffmpeg_cmd carries no -ss, -t or -output_ts_offset
NC_ffmpeg_cmd == [ss |-> <<0, 1>>, t |-> <<0, 1>>, output_ts_offset |-> <<0, 1>>]

\* main, lines 96-138: the start delay and building the command
NC_StartDelay ==
    /\ mode = "single" /\ pc = "delay"
    /\ pc' = "nc_launch"
    /\ UNCHANGED <<inputVars, progVars, paceVars, sessions, now, interrupts>>

\* main: the exit status when the encoder cannot be started
NC_LaunchFailedStatus == 1

\* main, lines 140-149: start the encoder, or release the capture and return 1
NC_Launch ==
    /\ mode = "single" /\ pc = "nc_launch"
    /\ \E found \in BOOLEAN :
         IF found
         THEN /\ sessions' = Append(sessions, NewSession(NC_ffmpeg_cmd, 0))
              /\ pc' = "nc_drain"
              /\ UNCHANGED <<capture_released, exit_status>>
         ELSE /\ capture_released' = TRUE
              /\ exit_status' = NC_LaunchFailedStatus
              /\ pc' = "exit"
              /\ UNCHANGED <<sessions>>
    /\ UNCHANGED <<inputVars, capture_pos, chunk_idx, chunk_start_sec, frames,
                   eof, total_frame_count, frame_i, pipe_broken, chunks,
                   written, returns, paceVars, now, interrupts>>

\* main, lines 151-154: stderr_thread.start()
NC_StartDrain ==
    /\ mode = "single" /\ pc = "nc_drain"
    /\ sessions' = [sessions EXCEPT ![Cur].drain = "running"]
    /\ pc' = "nc_pacer"
    /\ UNCHANGED <<inputVars, progVars, paceVars, now, interrupts>>

\* main, lines 157-159: next_frame_time = time.monotonic(); frame_count = 0
NC_PacerInit ==
    /\ mode = "single" /\ pc = "nc_pacer"
    /\ now' = t0
    /\ next_frame_time' = t0
    /\ total_frame_count' = 0
    /\ pc' = "nc_read"
    /\ UNCHANGED <<inputVars, capture_pos, capture_released, chunk_idx,
                   chunk_start_sec, frames, eof, frame_i, pipe_broken, chunks,
                   written, returns, exit_status, sessions, interrupts>>

\* main, lines 163-167: capture.read(); break at the end; frame_count += 1
NC_ReadFrame ==
    /\ mode = "single" /\ pc = "nc_read"
    /\ LET r == CaptureRead(capture_pos, total_frames)
       IN  IF r.ret
           THEN /\ frames' = <<process_frame(r.frame)>>
                /\ capture_pos' = capture_pos + 1
                /\ total_frame_count' = total_frame_count + 1
                /\ pc' = "nc_pace"
                /\ eof' = eof
           ELSE /\ eof' = TRUE
                /\ pc' = "nc_finally"
                /\ UNCHANGED <<frames, capture_pos, total_frame_count>>
    /\ EndPacing(pc' \notin PacingPcs)
    /\ UNCHANGED <<inputVars, capture_released, chunk_idx, chunk_start_sec,
                   frame_i, pipe_broken, chunks, written, returns, exit_status,
                   sessions, interrupts>>

\* main, lines 170-174: read the clock; sleep when ahead of schedule
NC_Pace ==
    /\ mode = "single" /\ pc = "nc_pace"
    /\ IF next_frame_time - now > 0
       THEN pc' = "nc_sleep" /\ UNCHANGED next_frame_time
       ELSE /\ next_frame_time' = NextFrameTime(next_frame_time, now)
            /\ pc' = "nc_write"
    /\ UNCHANGED <<inputVars, progVars, sessions, now, interrupts>>

\* main: time.sleep(sleep_time) returns, no earlier than asked
NC_Wake ==
    /\ mode = "single" /\ pc = "nc_sleep"
    /\ now >= next_frame_time
    /\ next_frame_time' = NextFrameTime(next_frame_time, now)
    /\ pc' = "nc_write"
    /\ UNCHANGED <<inputVars, progVars, sessions, now, interrupts>>

\* main, lines 176-180: ffmpeg_proc.stdin.write(frame.tobytes())
NC_Write ==
    /\ mode = "single" /\ pc = "nc_write"
    /\ IF sessions[Cur].enc = "running"
       THEN /\ written' = Append(written, frames[1])
            /\ sessions' = [sessions EXCEPT ![Cur].nwritten = @ + 1]
            /\ pc' = "nc_read"
            /\ UNCHANGED pipe_broken
       ELSE \* except BrokenPipeError: break
            /\ pipe_broken' = TRUE
            /\ pc' = "nc_finally"
            /\ UNCHANGED <<written, sessions>>
    /\ EndPacing(pc' \notin PacingPcs)
    /\ UNCHANGED <<inputVars, capture_pos, capture_released, chunk_idx,
                   chunk_start_sec, frames, eof, total_frame_count, frame_i,
                   chunks, returns, exit_status, interrupts>>

\* main, lines 183-188: finally: the summary, capture.release()
NC_Finally ==
    /\ mode = "single" /\ pc = "nc_finally"
    /\ capture_released' = TRUE
    /\ pc' = "nc_close"
    /\ UNCHANGED <<inputVars, capture_pos, chunk_idx, chunk_start_sec, frames,
                   eof, total_frame_count, frame_i, pipe_broken, chunks,
                   written, returns, exit_status, paceVars, sessions, now,
                   interrupts>>

\* main, lines 189-193: ffmpeg_proc.stdin.close(), BrokenPipeError passed
NC_CloseStdin ==
    /\ mode = "single" /\ pc = "nc_close"
    /\ sessions' = [sessions EXCEPT ![Cur].closes = StdinCloses(@)]
    /\ pc' = "nc_wait"
    /\ UNCHANGED <<inputVars, progVars, paceVars, now, interrupts>>

\* main, lines 194-196: ffmpeg_proc.wait(); return 0
NC_Wait ==
    /\ mode = "single" /\ pc = "nc_wait"
    /\ WaitReturns(sessions[Cur].enc)
    /\ sessions' = [sessions EXCEPT ![Cur].awaited = TRUE]
    /\ exit_status' = 0
    /\ pc' = "exit"
    /\ UNCHANGED <<inputVars, capture_pos, capture_released, chunk_idx,
                   chunk_start_sec, frames, eof, total_frame_count, frame_i,
                   pipe_broken, chunks, written, returns, paceVars, now,
                   interrupts>>

\* the positions of main inside its try block
NC_TryPcs == {"nc_read", "nc_pace", "nc_sleep", "nc_write"}

\* main, lines 181-182: except KeyboardInterrupt: pass; anywhere else it escapes
NC_KeyboardInterrupt ==
    /\ mode = "single" /\ pc # "exit"
    /\ interrupts' = Append(interrupts, pc)
    /\ IF pc \in NC_TryPcs
       THEN pc' = "nc_finally" /\ UNCHANGED exit_status
       ELSE pc' = "exit" /\ exit_status' = UncaughtInterrupt
    /\ EndPacing(pc \in PacingPcs)
    /\ UNCHANGED <<inputVars, capture_pos, capture_released, chunk_idx,
                   chunk_start_sec, frames, eof, total_frame_count, frame_i,
                   pipe_broken, chunks, written, returns, sessions>>

\* ============================================================ environment
\* an encoder process ends: by itself at any time, or after its input ended
EncoderExit ==
    /\ pc # "exit"
    /\ \E i \in 1..Len(sessions) :
         /\ sessions[i].enc = "running"
         /\ \E st \in {0, 1} :
              sessions' = [sessions EXCEPT ![i].enc = "exited",
                                           ![i].status = st]
    /\ UNCHANGED <<inputVars, progVars, paceVars, pc, now, interrupts>>

\* read_stderr_until_done: for raw_line in proc.stderr ends at end of file,
\* which comes once the encoder has exited
read_stderr_until_done ==
    /\ pc # "exit"
    /\ \E i \in 1..Len(sessions) :
         /\ sessions[i].drain = "running"
         /\ sessions[i].enc = "exited"
         /\ sessions' = [sessions EXCEPT ![i].drain = "done"]
    /\ UNCHANGED <<inputVars, progVars, paceVars, pc, now, interrupts>>

\* the monotonic clock advances
Tick ==
    /\ pc \in PacingPcs
    /\ now < MaxTime
    /\ now' = now + 1
    /\ UNCHANGED <<inputVars, progVars, paceVars, pc, sessions, interrupts>>

ChunkedNext ==
    \/ StartDelay \/ LoopTop \/ ReadFrame \/ FormChunk \/ Launch
    \/ StartDrain \/ PacerInit \/ Pace \/ Wake \/ Write \/ CloseStdin
    \/ Wait \/ Return \/ AfterSendChunk \/ Finally \/ KeyboardInterrupt

SingleNext ==
    \/ NC_StartDelay \/ NC_Launch \/ NC_StartDrain \/ NC_PacerInit
    \/ NC_ReadFrame \/ NC_Pace \/ NC_Wake \/ NC_Write \/ NC_Finally
    \/ NC_CloseStdin \/ NC_Wait \/ NC_KeyboardInterrupt

Next == ChunkedNext \/ SingleNext \/ EncoderExit \/ read_stderr_until_done \/ Tick

Spec == Init /\ [][Next]_vars

\* ================================================================= claims
Chunked == mode = "chunk"

\* the sizes of the chunks a partition of n frames into runs of c has
RECURSIVE ChunkSizes(_, _)
ChunkSizes(n, c) ==
    IF n <= 0 THEN <<>>
    ELSE IF n <= c THEN <<n>>
    ELSE <<c>> \o ChunkSizes(n - c, c)

\* C1: in chunked mode, for every two consecutive sessions the
\* -output_ts_offset of the later one is the earlier one's offset plus the
\* earlier chunk's actual duration len(frames) / fps: no gap, no overlap.
C1_TimestampContinuity ==
    Chunked =>
      \A i \in 1..(Len(sessions) - 1) :
         REq(sessions[i + 1].cmd.output_ts_offset,
             RAdd(sessions[i].cmd.output_ts_offset,
                  <<sessions[i].size * RDen(fps), RNum(fps)>>))

\* C2 as stated: every chunk formed is the next block of a partition of the
\* source into runs of ceil(fps * chunk_duration) frames, the last one holding
\* the rest, and chunk i (from 0) starts at i * chunk_duration.
C2_PartitionByCeil ==
    Chunked =>
      LET P == ChunkSizes(total_frames, Ceil(RMul(fps, chunk_duration)))
      IN  \A i \in 1..Len(chunks) :
             /\ i <= Len(P)
             /\ chunks[i].size = P[i]
             /\ REq(chunks[i].start, <<(i - 1) * RNum(chunk_duration),
                                       RDen(chunk_duration)>>)

\* the run ended because the source ran out: no interrupt, no failed chunk
EndedByExhaustion ==
    /\ pc = "exit" /\ exit_status = 0
    /\ eof /\ interrupts = <<>> /\ ~pipe_broken
    /\ \A k \in 1..Len(returns) : returns[k]

\* C2 as amended: every chunk formed is the next block of a partition of the
\* source into runs of max(1, round(fps * chunk_duration)) frames (round to
\* nearest, ties to even), the last one holding the rest; chunk i (from 0)
\* starts at i * chunk_duration; a run that ends by exhaustion has formed the
\* whole partition; and fps = 30, chunk_duration = 5, n = 163 gives sizes
\* <<150, 13>> and start times 0 and 5.
C2_PartitionByRound ==
    /\ ChunkSizes(163, ChunkFrameCount(<<30, 1>>, <<5, 1>>)) = <<150, 13>>
    /\ REq(ChunkStartSec(0, <<5, 1>>, <<30, 1>>), <<0, 1>>)
    /\ REq(ChunkStartSec(1, <<5, 1>>, <<30, 1>>), <<5, 1>>)
    /\ Chunked =>
         LET P == ChunkSizes(total_frames,
                             Max(1, PyRound(RMul(fps, chunk_duration))))
         IN  /\ \A i \in 1..Len(chunks) :
                  /\ i <= Len(P)
                  /\ chunks[i].size = P[i]
                  /\ REq(chunks[i].start, <<(i - 1) * RNum(chunk_duration),
                                            RDen(chunk_duration)>>)
             /\ EndedByExhaustion => Len(chunks) = Len(P)

\* a full chunk followed by a shorter last one, where rounding and the
\* ceiling differ
C2_Witness ==
    /\ Chunked /\ EndedByExhaustion
    /\ Len(chunks) = 2
    /\ chunks[2].size < chunks[1].size
    /\ Ceil(RMul(fps, chunk_duration)) # PyRound(RMul(fps, chunk_duration))

\* C3: in both programs the frames written to encoder stdin, over all
\* sessions in launch order, are at every moment a prefix of the frames read
\* from the source (same order, no duplicate); and a run that ends by source
\* exhaustion without a write failure has written every frame it read.
C3_FrameOrder ==
    /\ Len(written) <= capture_pos
    /\ \A i \in 1..Len(written) : written[i] = i
    /\ EndedByExhaustion =>
         Len(written) = capture_pos /\ capture_pos = total_frames

\* a chunked run of three frames over two sessions, ended by exhaustion
C3_Witness ==
    /\ Chunked /\ EndedByExhaustion
    /\ Len(sessions) = 2
    /\ Len(written) = 3

\* C4: in chunked mode, once a write has raised a broken pipe, send_chunk
\* writes no further frame, closes the encoder's stdin exactly once and
\* returns False, and no later session is ever launched.
C4_WriteFailureAborts ==
    /\ [](Chunked /\ pipe_broken =>
            /\ pc \in {"close", "wait", "return", "ret", "finally", "exit"}
            /\ sessions[Cur].closes <= 1
            /\ sessions[Cur].returned =>
                 /\ sessions[Cur].closes = 1
                 /\ returns[Len(returns)] = FALSE)
    /\ [][Chunked /\ pipe_broken =>
            /\ written' = written
            /\ frame_i' = frame_i
            /\ Len(sessions') = Len(sessions)]_vars

\* the pipe broke after one frame of a longer chunk, and send_chunk has
\* returned False with stdin closed once
C4_Witness ==
    /\ Chunked /\ pipe_broken
    /\ sessions[Cur].returned
    /\ sessions[Cur].nwritten >= 1
    /\ sessions[Cur].nwritten < sessions[Cur].size
    /\ sessions[Cur].closes = 1
    /\ returns[Len(returns)] = FALSE
    /\ capture_pos < total_frames
    /\ pc = "exit"

\* the positions after the launch at which an encoder session is being fed:
\* before the pacing sleep, in it, at a frame write
OpenSessionPcs == {"pace", "sleep", "write", "nc_pace", "nc_sleep", "nc_write"}

\* C5: in both programs, when a KeyboardInterrupt (one, no second one during
\* the cleanup) arrived while an encoder session was open, that session's
\* stdin has been closed and its process awaited by the time the program
\* has returned.
C5_CancellationCleanup ==
    (/\ pc = "exit"
     /\ Len(interrupts) = 1
     /\ interrupts[1] \in OpenSessionPcs)
    => /\ sessions[Cur].closes >= 1
       /\ sessions[Cur].awaited

\* the encoder executable could not be started
LaunchFailed ==
    \/ Chunked /\ Len(returns) > Len(sessions)
    \/ ~Chunked /\ pc = "exit" /\ sessions = <<>> /\ interrupts = <<>>

\* C6: in both programs, a run whose encoder could not be started exits
\* with status 1.
C6_LaunchFailureExitsOne ==
    (pc = "exit" /\ LaunchFailed /\ interrupts = <<>>) => exit_status = 1

\* C7: in both programs, a run that was interrupted at any point after the
\* media was opened exits with status 0.
C7_InterruptExitsZero ==
    (pc = "exit" /\ interrupts # <<>>) => exit_status = 0

\* C8: in chunked mode, a session whose encoder exited with a failure status
\* is reported failed (send_chunk returns False), even when every write
\* succeeded, and no later session is launched.
C8_ExitStatusFailsSession ==
    Chunked =>
      \A i \in 1..Len(sessions) :
         (sessions[i].returned /\ sessions[i].status # 0)
         => (returns[i] = FALSE /\ Len(sessions) = i)

\* the frames of the current pacing run whose slot of the schedule is taken
PacedFrames ==
    CASE pc \in {"pace", "sleep"} -> frame_i
      [] pc = "write" -> frame_i + 1
      [] pc \in {"nc_pace", "nc_sleep"} -> total_frame_count - 1
      [] pc \in {"nc_write", "nc_read"} -> total_frame_count
      [] OTHER -> -1

\* C9: within one pacing run the frame with index k (from 0) is never written
\* before t0 + k * T, where t0 is the clock at the pacer's initialisation and
\* T the frame period; and the scheduled time is t0 plus T per frame paced,
\* whether or not a sleep occurred.
C9_AbsoluteSchedule ==
    /\ pc = "write" => now >= t0 + frame_i * FrameDuration
    /\ pc = "nc_write" => now >= t0 + (total_frame_count - 1) * FrameDuration
    /\ PacedFrames >= 0 =>
         next_frame_time = t0 + PacedFrames * TicksPerFrame

\* a frame about to be written more than a period late (no sleep occurred
\* for it) while the schedule still stands at t0 + k * T
C9_Witness ==
    /\ pc = "write"
    /\ frame_i >= 1
    /\ now > next_frame_time
    /\ next_frame_time = t0 + (frame_i + 1) * TicksPerFrame

\* C10: the stderr drain of every session is started before the first frame
\* is written and has terminated before send_chunk returns, or before the
\* single-session program returns (stated for the runs no interrupt cuts
\* short).
C10_DrainLifetime ==
    interrupts = <<>> =>
    \A i \in 1..Len(sessions) :
       /\ sessions[i].nwritten > 0 => sessions[i].drain # "none"
       /\ sessions[i].returned => sessions[i].drain = "done"
       /\ (~Chunked /\ pc = "exit" /\ exit_status = 0)
          => sessions[i].drain = "done"

\* a chunked run that has ended with every send_chunk call returning True and
\* no interrupt
AllSessionsSucceeded ==
    /\ Chunked /\ pc = "exit" /\ interrupts = <<>>
    /\ Len(returns) = Len(chunks)
    /\ \A k \in 1..Len(returns) : returns[k]

\* C11: in chunked mode no session is ever launched for an empty chunk; a run
\* over n frames whose sessions all succeed has launched exactly ceil(n / c)
\* sessions, c being the chunk frame count, each with stdin closed once and
\* its process awaited, and exits 0; n = 0 launches none, n = 1 launches one
\* session whose duration is 1/fps, and n a multiple of c launches n / c.
C11_SessionCount ==
    Chunked =>
        LET n == total_frames
            c == Max(1, PyRound(RMul(fps, chunk_duration)))
        IN  /\ \A i \in 1..Len(sessions) : sessions[i].size >= 1
            /\ AllSessionsSucceeded =>
                 /\ Len(sessions) = (n + c - 1) \div c
                 /\ exit_status = 0
                 /\ \A i \in 1..Len(sessions) :
                      /\ sessions[i].closes = 1
                      /\ sessions[i].awaited
                 /\ n = 0 => sessions = <<>>
                 /\ n = 1 =>
                      /\ Len(sessions) = 1
                      /\ REq(sessions[1].cmd.t, <<RDen(fps), RNum(fps)>>)
                 /\ n % c = 0 => Len(sessions) * c = n

\* two full chunks and nothing left over: the third turn of the loop reads
\* no frame and launches nothing
C11_Witness ==
    /\ AllSessionsSucceeded
    /\ Len(sessions) = 2
    /\ total_frames = 2 * sessions[1].size
    /\ sessions[1].size >= 2

\* C12: in chunked mode, once the encoder process of a chunk could not be
\* started, no frame of that chunk is ever written, no session is launched
\* any more, no further frame is read and no further chunk formed, main is
\* past its loop, and the source has been released when the program ends
\* (an interrupt that lands inside the finally block is C7's case).
C12_LaunchFailureAborts ==
    /\ [](Chunked /\ Len(returns) > Len(sessions) =>
            /\ Len(chunks) = Len(sessions) + 1
            /\ returns[Len(returns)] = FALSE
            /\ \A k \in 1..Len(frames) : \A j \in 1..Len(written) :
                 written[j] # frames[k]
            /\ pc \in {"ret", "finally", "exit"}
            /\ pc = "exit"
                 /\ (\A k \in 1..Len(interrupts) : interrupts[k] # "finally")
               => capture_released)
    /\ [][Chunked /\ Len(returns) > Len(sessions) =>
            /\ written' = written
            /\ Len(sessions') = Len(sessions)
            /\ capture_pos' = capture_pos
            /\ chunks' = chunks]_vars

\* the second chunk's encoder could not be started while the source still
\* had frames: the first chunk was sent, the run has ended, the source is
\* released
C12_Witness ==
    /\ Chunked /\ Len(returns) > Len(sessions)
    /\ pc = "exit" /\ interrupts = <<>> /\ capture_released
    /\ Len(sessions) = 1 /\ written # <<>>
    /\ frames # <<>>
    /\ capture_pos < total_frames

\* C13: in both programs, once a write to the encoder's stdin has failed with
\* a broken pipe, no further frame is written and no further frame is read;
\* stdin is closed at most once; and a run that then returns without being
\* interrupted has closed the session's stdin, awaited its process (which has
\* exited) and released the source.
C13_NoZombieAfterBrokenSink ==
    /\ [](pipe_broken =>
            /\ sessions # <<>>
            /\ sessions[Cur].closes <= 1
            /\ pc = "exit" /\ interrupts = <<>> =>
                 /\ sessions[Cur].closes = 1
                 /\ sessions[Cur].awaited
                 /\ sessions[Cur].enc = "exited"
                 /\ capture_released)
    /\ [][pipe_broken =>
            /\ written' = written
            /\ capture_pos' = capture_pos
            /\ Len(sessions') = Len(sessions)]_vars

\* the single-session program returned after its second write raised
\* BrokenPipeError
C13_Witness ==
    /\ ~Chunked /\ pipe_broken
    /\ pc = "exit" /\ interrupts = <<>>
    /\ Len(written) = 1
    /\ sessions[Cur].closes = 1 /\ sessions[Cur].awaited
    /\ capture_released

\* frames read from the source and not written to an encoder's stdin
Unwritten == capture_pos - Len(written)

\* the capacity C14 speaks of: the chunk frame count in chunked mode, 1 in
\* single-session mode
Capacity ==
    IF Chunked THEN Max(1, PyRound(RMul(fps, chunk_duration))) ELSE 1

\* C14: at every moment the number of frames read from the source and not
\* yet written to an encoder is at most the capacity, which is the chunk
\* frame count in chunked mode and 1 in single-session mode; and a step that
\* reads a frame starts below that capacity, so no frame is read while it is
\* full.
C14_BoundedBuffering ==
    /\ [](Unwritten >= 0 /\ Unwritten <= Capacity)
    /\ [][capture_pos' > capture_pos =>
            /\ Unwritten < Capacity
            /\ capture_pos' = capture_pos + 1]_vars

\* a full chunk of two or more frames is held by the pacer before its first
\* write, with more frames left in the source: nothing is read meanwhile
C14_Witness ==
    /\ Chunked /\ pc = "pace" /\ frame_i = 0
    /\ Unwritten >= 2
    /\ Unwritten = Capacity
    /\ capture_pos < total_frames

\* the sessions whose encoder process has not exited
RunningSessions == {i \in 1..Len(sessions) : sessions[i].enc = "running"}

\* C15: in chunked mode at most one encoder process is running at any
\* moment, every session but the latest has had its stdin closed, has been
\* awaited and has exited, and a step that launches a session starts from
\* such a state for all the sessions before it.
C15_SequentialSessions ==
    /\ [](Chunked =>
            /\ Cardinality(RunningSessions) <= 1
            /\ \A i \in 1..(Len(sessions) - 1) :
                 /\ sessions[i].closes = 1
                 /\ sessions[i].awaited
                 /\ sessions[i].enc = "exited")
    /\ [][Chunked /\ Len(sessions') > Len(sessions) =>
            /\ Len(sessions') = Len(sessions) + 1
            /\ RunningSessions = {}
            /\ \A i \in 1..Len(sessions) :
                 sessions[i].closes = 1 /\ sessions[i].awaited]_vars

\* the second chunk's encoder is running after the first one's has exited
C15_Witness ==
    /\ Chunked /\ Len(sessions) = 2
    /\ sessions[2].enc = "running"
    /\ sessions[1].enc = "exited" /\ sessions[1].closes = 1
    /\ pc = "write"

\* the final summary has been printed: chunked main's finally block has run,
\* or the single-session finally block is past its print
SummaryPrinted ==
    \/ Chunked /\ pc = "exit" /\ capture_released
    \/ ~Chunked /\ pc \in {"nc_close", "nc_wait", "exit"} /\ sessions # <<>>
                /\ capture_released

\* C16: once the final summary is printed in a run without an interrupt, the
\* frame total it reports (total_frame_count, frame_count in the
\* single-session program) equals the number of frames written to encoder
\* stdin, and in chunked mode the chunk count it reports (chunk_idx) equals
\* the number of sessions launched.
C16_ReportedTotals ==
    SummaryPrinted /\ interrupts = <<>> =>
        /\ total_frame_count = Len(written)
        /\ Chunked => chunk_idx = Len(sessions)
====
